---- MODULE Spec2Model ----
(***************************************************************************)
(* Model of Interaction::play (interactive-actions, src/data.rs).          *)
(*                                                                         *)
(* One behaviour is one call of play: Init draws the Interaction, the      *)
(* VarBag argument and the scripted key events; the actions are the steps  *)
(* of play in source order.  The prompt session of the requestty library   *)
(* is modelled at the level of single key events: a key is taken from the  *)
(* scripted source, the widget of the question's kind reacts to it, Enter  *)
(* finishes the question, Ctrl-C interrupts the session with an error.     *)
(* The call is always made with a scripted event source (events = Some);   *)
(* the live-terminal branch of play differs only in where keys come from.  *)
(***************************************************************************)
EXTENDS Integers, Sequences, FiniteSets, TLC

VARIABLES
    self,       \* the Interaction play is called on (immutable)
    varbag,     \* the Option<&mut VarBag> argument
    events,     \* the scripted key events not yet consumed
    pc,         \* position of the call inside play
    question,   \* the Question built by to_question
    answers,    \* the prompt module's answer for the key "question"
    widget,     \* the state of the widget on screen while the question is asked
    result,     \* what play returned: Ok(Response) or Err
    varbag0,    \* the VarBag argument as it was when play was called
    events0     \* the scripted events as they were when play was called

vars == <<self, varbag, events, pc, question, answers, widget, result, varbag0, events0>>

-----------------------------------------------------------------------------
(* Bounds *)

MaxEvents == 3

-----------------------------------------------------------------------------
(* Values *)

Keys == {"y", "n", "Enter", "Down", "CtrlC"}

InteractionKind == {"Confirm", "Input", "Select"}

NoneOpt == [some |-> FALSE, val |-> ""]
SomeOpt(v) == [some |-> TRUE, val |-> v]

\* Option<Vec<String>>
NoOptions == [some |-> FALSE, val |-> <<>>]

\* DefaultValue, and Option<DefaultValue> through the tag "None"
NoDefault == [tag |-> "None", text |-> "", index |-> 0, bool |-> FALSE]
DefaultInput(s) == [tag |-> "Input", text |-> s, index |-> 0, bool |-> FALSE]
DefaultSelect(i) == [tag |-> "Select", text |-> "", index |-> i, bool |-> FALSE]
DefaultConfirm(b) == [tag |-> "Confirm", text |-> "", index |-> 0, bool |-> b]

\* requestty::Answer, Option<Answer> through the type "None"; the type "Panic"
\* stands for a computation that panicked instead of producing a value
NoAnswer == [type |-> "None", text |-> "", index |-> 0, bool |-> FALSE]
AnswerString(s) == [type |-> "String", text |-> s, index |-> 0, bool |-> FALSE]
AnswerListItem(s, i) == [type |-> "ListItem", text |-> s, index |-> i, bool |-> FALSE]
AnswerBool(b) == [type |-> "Bool", text |-> "", index |-> 0, bool |-> b]
Panic == [type |-> "Panic", text |-> "", index |-> 0, bool |-> FALSE]

\* Response
Text(s) == [tag |-> "Text", text |-> s]
Cancel == [tag |-> "Cancel", text |-> ""]
ResponseNone == [tag |-> "None", text |-> ""]

\* VarBag = BTreeMap<String, String>
EmptyBag == [k \in {} |-> ""]
Insert(bag, k, v) == [x \in (DOMAIN bag) \cup {k} |-> IF x = k THEN v ELSE bag[x]]

\* Option<&mut VarBag>
NoBag == [some |-> FALSE, map |-> EmptyBag]
SomeBag(m) == [some |-> TRUE, map |-> m]

Pending == [status |-> "Pending", response |-> ResponseNone]
Ok(r) == [status |-> "Ok", response |-> r]
Err == [status |-> "Err", response |-> ResponseNone]

NoQuestion == [kind |-> "None", choices |-> <<>>, ask_if_answered |-> FALSE]
NoWidget == [value |-> "", at |-> 0]

-----------------------------------------------------------------------------
(* Inputs of a call *)

Interactions ==
    [ kind : InteractionKind,
      out : {NoneOpt, SomeOpt("v")},
      options : {NoOptions, [some |-> TRUE, val |-> <<"x", "y">>]},
      default_value : {NoDefault, DefaultInput("d"),
                       DefaultSelect(0), DefaultSelect(1), DefaultSelect(2),
                       DefaultConfirm(TRUE), DefaultConfirm(FALSE)},
      ask_if_has_default : {NoneOpt, SomeOpt(TRUE), SomeOpt(FALSE)} ]

VarBags ==
    { NoBag,
      SomeBag(EmptyBag),
      SomeBag([k \in {"w"} |-> "keep"]),
      SomeBag([k \in {"v", "w"} |-> IF k = "v" THEN "old" ELSE "keep"]) }

EventSeqs == UNION { [1..n -> Keys] : n \in 0..MaxEvents }

-----------------------------------------------------------------------------
(* Interaction::update_varbag *)

\* mutant: the value is stored under the question's name, not under out
update_varbag_question_key(i, input, bag) ==
    IF bag.some /\ i.out.some
    THEN SomeBag(Insert(bag.map, "question", input))
    ELSE bag

\* mutant: without out, the value is stored under the empty name
update_varbag_unnamed(i, input, bag) ==
    IF bag.some
    THEN SomeBag(Insert(bag.map, IF i.out.some THEN i.out.val ELSE "", input))
    ELSE bag

update_varbag(i, input, bag) ==
    IF bag.some /\ i.out.some
    THEN SomeBag(Insert(bag.map, i.out.val, input))
    ELSE bag

(* Interaction::to_default_answer *)

\* mutant: a checked lookup, a missing option gives no default answer
to_default_answer_checked(i) ==
    LET d == i.default_value IN
    CASE d.tag = "None" -> NoAnswer
      [] d.tag = "Input" -> AnswerString(d.text)
      [] d.tag = "Select" ->
            IF ~i.options.some \/ d.index >= Len(i.options.val) THEN NoAnswer
            ELSE AnswerListItem(i.options.val[d.index + 1], d.index)
      [] d.tag = "Confirm" -> AnswerBool(d.bool)

to_default_answer(i) ==
    LET d == i.default_value IN
    CASE d.tag = "None" -> NoAnswer
      [] d.tag = "Input" -> AnswerString(d.text)
      [] d.tag = "Select" ->
            IF ~i.options.some THEN Panic                       \* unwrap() of None
            ELSE IF d.index >= Len(i.options.val) THEN Panic    \* index out of bounds
            ELSE AnswerListItem(i.options.val[d.index + 1], d.index)
      [] d.tag = "Confirm" -> AnswerBool(d.bool)

(* Interaction::to_question *)

\* mutant: ask_if_answered is set whenever ask_if_has_default is given
to_question_ask_if_some(i) ==
    [ kind |-> i.kind,
      choices |-> IF i.kind = "Select" /\ i.options.some THEN i.options.val ELSE <<>>,
      ask_if_answered |-> i.ask_if_has_default.some ]

\* mutant: ask_if_answered is never set
to_question_never_ask(i) ==
    [ kind |-> i.kind,
      choices |-> IF i.kind = "Select" /\ i.options.some THEN i.options.val ELSE <<>>,
      ask_if_answered |-> FALSE ]

to_question(i) ==
    [ kind |-> i.kind,
      choices |-> IF i.kind = "Select" /\ i.options.some THEN i.options.val ELSE <<>>,
      ask_if_answered |-> i.ask_if_has_default.some /\ i.ask_if_has_default.val ]

(* The match at the end of play: the Response for the answer found *)

\* mutant: the guard of the Bool arm is missing
ResponseOf_any_bool(answer) ==
    CASE answer.type = "String" -> Text(answer.text)
      [] answer.type = "ListItem" -> Text(answer.text)
      [] answer.type = "Bool" -> Text("true")
      [] answer.type = "None" -> Cancel
      [] OTHER -> Cancel

\* mutant: the ListItem arm is missing
ResponseOf_no_list_item(answer) ==
    CASE answer.type = "String" -> Text(answer.text)
      [] answer.type = "Bool" /\ answer.bool -> Text("true")
      [] answer.type = "None" -> Cancel
      [] OTHER -> Cancel

\* mutant: the catch-all arm gives Response::None
ResponseOf_none(answer) ==
    CASE answer.type = "String" -> Text(answer.text)
      [] answer.type = "ListItem" -> Text(answer.text)
      [] answer.type = "Bool" /\ answer.bool -> Text("true")
      [] answer.type = "None" -> Cancel
      [] OTHER -> ResponseNone

ResponseOf(answer) ==
    CASE answer.type = "String" -> Text(answer.text)
      [] answer.type = "ListItem" -> Text(answer.text)
      [] answer.type = "Bool" /\ answer.bool -> Text("true")
      [] answer.type = "None" -> Cancel
      [] OTHER -> Cancel

(* The update_varbag call of the matched arm *)

\* mutant: a false confirmation is captured too
CaptureOf_false(i, answer, bag) ==
    CASE answer.type = "String" -> update_varbag(i, answer.text, bag)
      [] answer.type = "ListItem" -> update_varbag(i, answer.text, bag)
      [] answer.type = "Bool" -> update_varbag(i, IF answer.bool THEN "true" ELSE "false", bag)
      [] OTHER -> bag

CaptureOf(i, answer, bag) ==
    CASE answer.type = "String" -> update_varbag(i, answer.text, bag)
      [] answer.type = "ListItem" -> update_varbag(i, answer.text, bag)
      [] answer.type = "Bool" /\ answer.bool -> update_varbag(i, "true", bag)
      [] OTHER -> bag

-----------------------------------------------------------------------------
(* The prompt session: requestty as play uses it *)

\* A question is skipped when an answer of its name exists and the question
\* was not built with ask_if_answered(true)
Skipped(q, ans) == ~q.ask_if_answered /\ ans.type # "None"

\* The widget's reaction to a key that is neither Enter nor Ctrl-C
OnKey(q, w, key) ==
    CASE q.kind = "Input" /\ key \in {"y", "n"} -> [w EXCEPT !.value = w.value \o key]
      [] q.kind = "Confirm" /\ key \in {"y", "n"} -> [w EXCEPT !.value = key]
      [] q.kind = "Select" /\ key = "Down" -> [w EXCEPT !.at = (w.at + 1) % Len(q.choices)]
      [] OTHER -> w

\* Enter finishes the question unless the widget has nothing to submit
CanFinish(q, w) == q.kind = "Confirm" => w.value # ""

Finish(q, w) ==
    CASE q.kind = "Input" -> AnswerString(w.value)
      [] q.kind = "Select" -> AnswerListItem(q.choices[w.at + 1], w.at)
      [] q.kind = "Confirm" -> AnswerBool(w.value = "y")

-----------------------------------------------------------------------------
(* The call *)

Init ==
    /\ self \in Interactions
    /\ varbag \in VarBags
    /\ events \in EventSeqs
    /\ pc = "to_question"
    /\ question = NoQuestion
    /\ answers = NoAnswer
    /\ widget = NoWidget
    /\ result = Pending
    /\ varbag0 = varbag
    /\ events0 = events

\* let question = self.to_question(); PromptModule::new([question])
BuildQuestion ==
    /\ pc = "to_question"
    /\ question' = to_question(self)
    /\ pc' = "to_default_answer"
    /\ UNCHANGED <<self, varbag, events, answers, widget, result, varbag0, events0>>

\* let answer = self.to_default_answer(); prompt.with_answers(..)
ResolveDefault ==
    /\ pc = "to_default_answer"
    /\ LET answer == to_default_answer(self) IN
         IF answer.type = "Panic"
         THEN /\ pc' = "panicked"
              /\ UNCHANGED answers
         ELSE /\ pc' = "prompt"
              /\ answers' = answer
    /\ UNCHANGED <<self, varbag, events, question, widget, result, varbag0, events0>>

\* prompt_with: the question is skipped, the prompt returns Ok
SkipQuestion ==
    /\ pc = "prompt"
    /\ Skipped(question, answers)
    /\ pc' = "normalize"
    /\ UNCHANGED <<self, varbag, events, question, answers, widget, result, varbag0, events0>>

\* prompt_with: the question is put on screen
AskQuestion ==
    /\ pc = "prompt"
    /\ ~Skipped(question, answers)
    /\ ~(question.kind = "Select" /\ question.choices = <<>>)
    /\ widget' = NoWidget
    /\ pc' = "asking"
    /\ UNCHANGED <<self, varbag, events, question, answers, result, varbag0, events0>>

\* prompt_with: a select question without a selectable item cannot be put on
\* screen; the session ends without an answer, by a panic or by an error
AskNothing ==
    /\ pc = "prompt"
    /\ ~Skipped(question, answers)
    /\ question.kind = "Select" /\ question.choices = <<>>
    /\ \/ pc' = "panicked" /\ UNCHANGED result
       \/ pc' = "failed" /\ result' = Err
    /\ UNCHANGED <<self, varbag, events, question, answers, widget, varbag0, events0>>

\* prompt_with: one key event is taken from the source and handled
KeyEvent ==
    /\ pc = "asking"
    /\ events # <<>>
    /\ events' = Tail(events)
    /\ LET key == Head(events) IN
         CASE key = "CtrlC" ->
                \* the session is interrupted: prompt_with(..)? returns the error
                /\ pc' = "failed"
                /\ result' = Err
                /\ UNCHANGED <<answers, widget>>
           [] key = "Enter" /\ CanFinish(question, widget) ->
                /\ pc' = "normalize"
                /\ answers' = Finish(question, widget)
                /\ UNCHANGED <<widget, result>>
           [] OTHER ->
                /\ widget' = OnKey(question, widget, key)
                /\ UNCHANGED <<pc, answers, result>>
    /\ UNCHANGED <<self, varbag, question, varbag0, events0>>

\* prompt_with: the question wants a key and the scripted source has none left;
\* the session cannot complete: it ends by an error or by a panic
Exhausted ==
    /\ pc = "asking"
    /\ events = <<>>
    /\ \/ pc' = "failed" /\ result' = Err
       \/ pc' = "panicked" /\ UNCHANGED result
    /\ UNCHANGED <<self, varbag, events, question, answers, widget, varbag0, events0>>

\* let answer = answers.get("question"); Ok(match answer { .. })
Normalize ==
    /\ pc = "normalize"
    /\ varbag' = CaptureOf(self, answers, varbag)
    /\ result' = Ok(ResponseOf(answers))
    /\ pc' = "returned"
    /\ UNCHANGED <<self, events, question, answers, widget, varbag0, events0>>

Next ==
    \/ BuildQuestion
    \/ ResolveDefault
    \/ SkipQuestion
    \/ AskQuestion
    \/ AskNothing
    \/ KeyEvent
    \/ Exhausted
    \/ Normalize

Spec == Init /\ [][Next]_vars

-----------------------------------------------------------------------------
(* What the script and the interaction say, read without running the call *)

HasDefault(i) == i.default_value.tag # "None"
AskAnyway(i) == i.ask_if_has_default = SomeOpt(TRUE)
\* the question is put to the user: nothing pre-answers it, or it asks anyway
IsAsked(i) == ~HasDefault(i) \/ AskAnyway(i)

BadSelectDefault(i) ==
    /\ i.default_value.tag = "Select"
    /\ (~i.options.some \/ i.default_value.index >= Len(i.options.val))

\* the keys in front of the Enter that submits the answer: the first Enter,
\* for a confirmation the first Enter after a y or an n
RECURSIVE BeforeSubmit(_, _)
BeforeSubmit(evs, armed) ==
    IF evs = <<>> \/ (Head(evs) = "Enter" /\ armed) THEN <<>>
    ELSE <<Head(evs)>> \o BeforeSubmit(Tail(evs), armed \/ Head(evs) \in {"y", "n"})

BeforeEnter(evs) == BeforeSubmit(evs, self.kind # "Confirm")

\* the script holds a submitting Enter that no Ctrl-C precedes
Submits(evs) ==
    /\ Len(BeforeEnter(evs)) < Len(evs)
    /\ \A k \in 1..Len(BeforeEnter(evs)) : BeforeEnter(evs)[k] # "CtrlC"

\* the last y or n of a sequence of keys, "" when it has none
RECURSIVE LastYN(_)
LastYN(keys) ==
    IF keys = <<>> THEN ""
    ELSE IF keys[Len(keys)] \in {"y", "n"} THEN keys[Len(keys)]
    ELSE LastYN(SubSeq(keys, 1, Len(keys) - 1))

\* the text typed by a sequence of keys
RECURSIVE Typed(_)
Typed(keys) ==
    IF keys = <<>> THEN ""
    ELSE (IF Head(keys) \in {"y", "n"} THEN Head(keys) ELSE "") \o Typed(Tail(keys))

\* the number of Down keys in a sequence of keys
RECURSIVE Downs(_)
Downs(keys) ==
    IF keys = <<>> THEN 0
    ELSE (IF Head(keys) = "Down" THEN 1 ELSE 0) + Downs(Tail(keys))

\* the Response a default answer stands for
DefaultResponse(i) ==
    LET d == i.default_value IN
    CASE d.tag = "Input" -> Text(d.text)
      [] d.tag = "Select" -> Text(i.options.val[d.index + 1])
      [] d.tag = "Confirm" -> IF d.bool THEN Text("true") ELSE Cancel

Returned == pc = "returned"

-----------------------------------------------------------------------------
(* Claims *)

\* C1: an Input interaction answered with the typed string s returns Text(s),
\* and with out = Some(v) and a VarBag supplied, varbag[v] = s afterwards
\* (inserted when v was absent, overwritten when it was present).
C1_InputText ==
    (Returned /\ self.kind = "Input" /\ IsAsked(self)) =>
        LET s == Typed(BeforeEnter(events0)) IN
        /\ result = Ok(Text(s))
        /\ (self.out.some /\ varbag0.some) =>
              /\ varbag.some
              /\ self.out.val \in DOMAIN varbag.map
              /\ varbag.map[self.out.val] = s

C1_Witness ==
    /\ Returned /\ self.kind = "Input" /\ IsAsked(self)
    /\ result = Ok(Text("yn"))
    /\ self.out = SomeOpt("v")
    /\ varbag0.some /\ "v" \in DOMAIN varbag0.map
    /\ varbag.map["v"] = "yn"

\* C2: a Confirm interaction whose prompt completed with the answer true
\* returns Text("true"); completed with the answer false it returns Cancel.
C2_Confirm ==
    (Returned /\ self.kind = "Confirm" /\ IsAsked(self)) =>
        /\ answers.type = "Bool"
        /\ answers.bool => result = Ok(Text("true"))
        /\ ~answers.bool => result = Ok(Cancel)

C2_Witness ==
    /\ Returned /\ self.kind = "Confirm" /\ IsAsked(self)
    /\ answers = AnswerBool(FALSE)
    /\ result = Ok(Cancel)
    /\ Len(events) < Len(events0)

\* C3: a Select interaction with a non-empty options list whose prompt
\* completed on the item at index i returns Text(options[i]).
C3_SelectLabel ==
    (Returned /\ self.kind = "Select" /\ IsAsked(self)
        /\ self.options.some /\ self.options.val # <<>>) =>
        LET i == Downs(BeforeEnter(events0)) % Len(self.options.val) IN
        /\ answers.type = "ListItem" /\ answers.index = i
        /\ result = Ok(Text(self.options.val[i + 1]))

C3_Witness ==
    /\ Returned /\ self.kind = "Select" /\ IsAsked(self)
    /\ self.options.val = <<"x", "y">>
    /\ answers.index = 1
    /\ result = Ok(Text("y"))

\* C4: with a default_value and ask_if_has_default None or Some(false), play
\* resolves to the default without prompting: no scripted event is consumed,
\* the question is never asked, and the Response returned is the one the
\* default stands for.
C4_DefaultUnprompted ==
    (HasDefault(self) /\ ~AskAnyway(self)) =>
        /\ events = events0
        /\ pc \notin {"asking", "failed"}
        /\ pc = "panicked" => BadSelectDefault(self)
        /\ Returned => result = Ok(DefaultResponse(self))

C4_Witness ==
    /\ Returned
    /\ self.kind = "Select"
    /\ self.default_value = DefaultSelect(0)
    /\ self.ask_if_has_default = SomeOpt(FALSE)
    /\ self.options.val = <<"x", "y">>
    /\ events0 # <<>> /\ events = events0
    /\ result = Ok(Text("x"))

\* C5 as stated: a supplied VarBag is mutated if and only if out is set and
\* an answer was obtained from the prompt session (here: the question was
\* asked and the user's answer is the one play found).
C5_AsStated ==
    (Returned /\ varbag0.some /\ IsAsked(self)) =>
        ((self.out.some /\ answers.type # "None") <=> varbag.map # varbag0.map)

\* C5 amended: a supplied VarBag is mutated if and only if out is set and the
\* answer obtained is returned as Response::Text; the change is then exactly
\* varbag[out] = the text of that Response.  In every other outcome (Cancel,
\* among them a false confirmation; an error; a panic) it is left as it was.
C5_Capture ==
    /\ ~Returned => varbag = varbag0
    /\ (Returned /\ varbag0.some) =>
          /\ varbag.some
          /\ varbag.map =
                IF self.out.some /\ result.response.tag = "Text"
                THEN Insert(varbag0.map, self.out.val, result.response.text)
                ELSE varbag0.map
    /\ (Returned /\ ~varbag0.some) => varbag = varbag0

C5_Witness ==
    /\ Returned /\ varbag0.some /\ self.out.some
    /\ answers = AnswerBool(FALSE)
    /\ varbag = varbag0
    /\ "v" \in DOMAIN varbag.map

\* C6: with out = None the VarBag supplied is the same before and after play,
\* whatever the kind, the default and the answer.
C6_NoOutNoChange ==
    ~self.out.some => varbag = varbag0

C6_Witness ==
    /\ Returned /\ ~self.out.some
    /\ varbag0.some /\ varbag0.map # EmptyBag
    /\ result.response.tag = "Text"
    /\ Len(events) < Len(events0)

\* C8: every play call that returns Ok returns Text or Cancel, never
\* Response::None.
C8_TextOrCancel ==
    /\ Returned <=> result.status = "Ok"
    /\ result.status = "Ok" => result.response.tag \in {"Text", "Cancel"}

C8_Witness ==
    /\ Returned
    /\ answers = AnswerBool(FALSE)
    /\ result = Ok(Cancel)

\* C9: with ask_if_has_default = Some(true) and a default_value, the question
\* is still asked for every kind: play reaches its answer only by consuming
\* scripted events, and the Response is the one of the answer given in the
\* prompt session, not the one of the default.
C9_AskAnyway ==
    (AskAnyway(self) /\ HasDefault(self)) =>
        /\ pc \in {"normalize", "returned"} =>
              /\ Submits(events0)
              /\ Len(events) < Len(events0)
        /\ Returned =>
              LET keys == BeforeEnter(events0) IN
              CASE self.kind = "Input" -> result = Ok(Text(Typed(keys)))
                [] self.kind = "Select" ->
                      result = Ok(Text(self.options.val[(Downs(keys) % Len(self.options.val)) + 1]))
                [] self.kind = "Confirm" ->
                      /\ LastYN(keys) # ""
                      /\ result = IF LastYN(keys) = "y"
                                  THEN Ok(Text("true")) ELSE Ok(Cancel)

C9_Witness ==
    /\ Returned /\ AskAnyway(self)
    /\ self.kind = "Select"
    /\ self.default_value = DefaultSelect(0)
    /\ result = Ok(Text("y"))

\* C10: with default_value = Select(i) and options absent or i >= len(options)
\* play ends in a panic while resolving the default answer: it returns neither
\* Ok nor Err, the prompt is never driven, no scripted event is consumed and
\* the VarBag is unchanged.
C10_BadSelectDefault ==
    BadSelectDefault(self) =>
        /\ pc \in {"to_question", "to_default_answer", "panicked"}
        /\ result = Pending
        /\ events = events0
        /\ varbag = varbag0
        /\ answers = NoAnswer

C10_Witness ==
    /\ BadSelectDefault(self)
    /\ pc = "panicked"
    /\ self.options.some
    /\ events0 # <<>>

====
